---- MODULE Spec2Model ----
(***************************************************************************)
(* A model of lhotse/cut.py: Cut (truncate, overlay, append), MixedCut     *)
(* (with_cut_set, supervisions, duration, load_features) and CutSet        *)
(* (with_source_cuts_from, __len__, __add__).                              *)
(*                                                                         *)
(* Time.  Seconds are floats in the source.  The inputs of the model lie   *)
(* on a grid of ticks of 1e-5 s, the tolerance of Cut.truncate's second    *)
(* assertion, and a number of the model counts Ulp, a fraction of a tick   *)
(* that stands for one floating-point rounding error.  A float sum or      *)
(* difference is the exact one plus an error of -1, 0 or +1 Ulp; the error *)
(* is 0 where IEEE arithmetic is exact (an operand is 0, both operands are *)
(* whole seconds, a difference of two floats within a factor two of each   *)
(* other).  Which error the machine makes depends on the bits of the       *)
(* operands, which the grid does not show, so that a call of truncate has  *)
(* every outcome that some rounding produces.  Times are taken to be small *)
(* enough for a rounding error to be far below 1e-5 s.  In truncate the    *)
(* rounding decides branches; in MixedCut.duration it does not, and the    *)
(* sum there is kept exact.                                                *)
(*                                                                         *)
(* Heap.  Cut, MixedCut and CutSet are Python objects.  objs[k] is the     *)
(* entity at address k, sets[k] the CutSet at address k; a dict is the     *)
(* sequence of its <<key, value>> items in insertion order.                *)
(***************************************************************************)
EXTENDS Integers, Sequences, FiniteSets, TLC

VARIABLES
    self,   \* the Cut that truncate is called on
    objs,   \* heap of entities (Cut and MixedCut objects), by address
    sets,   \* heap of CutSet objects, by address: each a dict id -> address in objs
    call,   \* the last operation called, with its arguments
    ret     \* what that call returned or raised

vars == <<self, objs, sets, call, ret>>

----------------------------------------------------------------------------
(* Units and input ranges *)

\* the tolerance 1e-5 s of truncate's end check, one tick, in Ulp: far above the
\* rounding errors that one call adds up
Tol == 16

\* one second: 1e5 ticks
Second == 100000 * Tol

\* the values of the grid: t ticks for t in T
Ticks(T) == {t * Tol : t \in T}

\* largest small start of a Cut, in ticks
MaxStart == 1
\* largest small duration of a Cut, in ticks
MaxDur == 2
\* largest small offset argument, in ticks
MaxOffset == 1
\* largest small until argument, in ticks
MaxUntil == 3

\* until=None
None == <<>>

\* the Cut of truncate's docstring: start=3.0, duration=8.0
DocStart == 3 * Second
DocDuration == 8 * Second
\* the docstring's call: truncate(offset=5.0, until=7.0)
DocOffset == 5 * Second
DocUntil == 7 * Second

Starts == Ticks(0..MaxStart) \cup {DocStart}
Durations == Ticks(1..MaxDur) \cup {DocDuration}
Offsets == Ticks(0..MaxOffset) \cup {DocOffset}
Untils == {None} \cup {<<u>> : u \in Ticks(0..MaxUntil) \cup {DocUntil}}

\* frame_length and frame_shift of a Features object: 25 ms, and 10 ms or 5 ms
Framings == {[frame_length |-> 2500 * Tol, frame_shift |-> 1000 * Tol],
             [frame_length |-> 2500 * Tol, frame_shift |-> 500 * Tol]}

\* the annotations a Cut may carry: over the first tick, over the first two
\* ticks, over the second tick
Annotations == {[start |-> 0, duration |-> Tol],
                [start |-> 0, duration |-> 2 * Tol],
                [start |-> Tol, duration |-> Tol]}

\* the lists that hold each element of S once, in any order
Orderings(S) ==
    {q \in [1..Cardinality(S) -> S] : \A i, j \in DOMAIN q : q[i] = q[j] => i = j}

\* the supervisions lists of a Cut: some of the annotations, in any order
SupervisionLists == UNION {Orderings(S) : S \in SUBSET Annotations}

----------------------------------------------------------------------------
(* lhotse.utils: TimeSpan, overlaps, overspans (not in this file) *)

TimeSpan(start, end) == [start |-> start, end |-> end]

\* SupervisionSegment.end
SegEnd(segment) == segment.start + segment.duration

\* the two spans intersect
overlaps(lhs, rhs) == lhs.start < SegEnd(rhs) /\ rhs.start < lhs.end

\* the first span covers the whole second one
overspans(spanning, spanned) ==
    /\ spanning.start <= spanned.start
    /\ spanned.start <= SegEnd(spanned)
    /\ SegEnd(spanned) <= spanning.end

----------------------------------------------------------------------------
(* Results of calls *)

NoResult == [kind |-> "none"]
Raise(exc) == [kind |-> exc]
ReturnCut(c) == [kind |-> "Cut", cut |-> c]

----------------------------------------------------------------------------
(* Cut *)

NewCut(id, channel, start, duration, features, supervisions) ==
    [type |-> "Cut", id |-> id, channel |-> channel, start |-> start,
     duration |-> duration, features |-> features, supervisions |-> supervisions]

\* the ids str(uuid4()) draws from
Uuids == <<"u1", "u2">>

\* str(uuid4()): an id no entity in `used` has; ids are opaque, so the first
\* unused one of Uuids stands for it
Unused(used) == {i \in 1..Len(Uuids) : Uuids[i] \notin used}
uuid4(used) == Uuids[CHOOSE i \in Unused(used) : \A j \in Unused(used) : i <= j]

\* the error of one float operation, in Ulp
Round == {-1, 0, 1}

\* a float that is a whole number of seconds
Whole(x) == x % Second = 0

\* the float sum a + b, rounded with error e
fl_add(a, b, e) ==
    IF a = 0 \/ b = 0 \/ (Whole(a) /\ Whole(b)) THEN a + b ELSE a + b + e

\* the float difference a - b, rounded with error e
fl_sub(a, b, e) ==
    IF \/ a = 0 \/ b = 0 \/ a = b
       \/ Whole(a) /\ Whole(b)
       \/ a > 0 /\ b > 0 /\ a <= 2 * b /\ b <= 2 * a
    THEN a - b ELSE a - b + e

\* Cut.end, rounded with error e
CutEnd(c, e) == fl_add(c.start, c.duration, e)

\* the errors of the float operations of one call of truncate: of the sum of
\* line 72, of the difference of line 73, of the left sum of line 75 (the same
\* sum again in line 76), and of the two sums on the right of line 75
Roundings == [start : Round, duration : Round, end : Round,
              old_end : Round, bound : Round]

\* line 72
new_start_m(c, offset, fl) == offset
new_start(c, offset, fl) == fl_add(c.start, offset, fl.start)

\* line 73
new_duration_m(c, offset, until, fl) ==
    IF until = None THEN fl_sub(c.duration, new_start(c, offset, fl), fl.duration)
                    ELSE fl_sub(until[1], new_start(c, offset, fl), fl.duration)
new_duration(c, offset, until, fl) ==
    IF until = None THEN fl_sub(c.duration, new_start(c, offset, fl), fl.duration)
                    ELSE fl_sub(until[1], offset, fl.duration)

\* new_start + new_duration of lines 75 and 76
new_end(c, offset, until, fl) ==
    fl_add(new_start(c, offset, fl), new_duration(c, offset, until, fl), fl.end)

\* lines 74-75: both assertions pass
truncate_asserts_m(c, offset, until, fl) ==
    new_duration(c, offset, until, fl) > 0
truncate_asserts(c, offset, until, fl) ==
    /\ new_duration(c, offset, until, fl) > 0
    /\ new_end(c, offset, until, fl)
           <= fl_add(fl_add(c.start, c.duration, fl.old_end), Tol, fl.bound)

\* lines 76-77, 83-85
kept_supervisions_m(c, offset, until, keep_excessive_supervisions, fl) ==
    LET old_time_span == TimeSpan(c.start, fl_add(c.start, c.duration, fl.old_end))
        criterion(segment) ==
            IF keep_excessive_supervisions THEN overlaps(old_time_span, segment)
                                           ELSE overspans(old_time_span, segment)
    IN  SelectSeq(c.supervisions, criterion)
kept_supervisions(c, offset, until, keep_excessive_supervisions, fl) ==
    LET new_time_span ==
            TimeSpan(new_start(c, offset, fl), new_end(c, offset, until, fl))
        criterion(segment) ==
            IF keep_excessive_supervisions THEN overlaps(new_time_span, segment)
                                           ELSE overspans(new_time_span, segment)
    IN  SelectSeq(c.supervisions, criterion)

\* Cut.truncate, its float operations rounded with the errors fl
truncate(c, offset, until, keep_excessive_supervisions, fl) ==
    IF ~truncate_asserts(c, offset, until, fl) THEN Raise("AssertionError")
    ELSE ReturnCut(NewCut(uuid4({c.id}), c.channel,
                          new_start(c, offset, fl), new_duration(c, offset, until, fl),
                          c.features,
                          kept_supervisions(c, offset, until,
                                            keep_excessive_supervisions, fl)))

----------------------------------------------------------------------------
(* Truncation of one Cut *)

InitTruncate ==
    /\ self \in {NewCut("x", 0, s, d, CHOOSE f \in Framings : f.frame_shift = 1000 * Tol, sv) :
                    s \in Starts, d \in Durations, sv \in SupervisionLists}
    /\ objs = <<>>
    /\ sets = <<>>
    /\ call = [op |-> "init"]
    /\ ret = NoResult

\* one call c.truncate(offset=, until=, keep_excessive_supervisions=)
Truncate(offset, until, keep) ==
    /\ call.op = "init"
    /\ call' = [op |-> "truncate", offset |-> offset, until |-> until,
                keep_excessive_supervisions |-> keep]
    /\ \E fl \in Roundings : ret' = truncate(self, offset, until, keep, fl)
    /\ UNCHANGED <<self, objs, sets>>

NextTruncate ==
    \E offset \in Offsets, until \in Untils, keep \in BOOLEAN : Truncate(offset, until, keep)

SpecTruncate == InitTruncate /\ [][NextTruncate]_vars

----------------------------------------------------------------------------
(* A Python dict: its items <<key, value>> in insertion order, keys unique *)

DictKeys(d) == {d[i][1] : i \in 1..Len(d)}
DictHas(d, k) == k \in DictKeys(d)
\* d[k]
DictGet(d, k) == d[CHOOSE i \in 1..Len(d) : d[i][1] = k][2]
\* d[k] = v: a present key keeps its place
DictSet(d, k, v) ==
    IF DictHas(d, k)
    THEN [i \in 1..Len(d) |-> IF d[i][1] = k THEN <<k, v>> ELSE d[i]]
    ELSE Append(d, <<k, v>>)
\* {**d, **other}
RECURSIVE DictMerge(_, _)
DictMerge(d, other) ==
    IF other = <<>> THEN d
    ELSE DictMerge(DictSet(d, Head(other)[1], Head(other)[2]), Tail(other))

----------------------------------------------------------------------------
(* Cut.overlay, Cut.append, MixedCut *)

\* a MixedCut no with_cut_set was called on has no _cut_set attribute
Unbound == 0

Ok(v) == [kind |-> "ok", val |-> v]
Max(x, y) == IF x >= y THEN x ELSE y

NewMixedCut(id, left_cut_id, right_cut_id, offset_right_by, snr) ==
    [type |-> "MixedCut", id |-> id, left_cut_id |-> left_cut_id,
     right_cut_id |-> right_cut_id, offset_right_by |-> offset_right_by,
     snr |-> snr, cut_set |-> Unbound]

\* the ids of the entities on the heap
UsedIds == {objs[k].id : k \in 1..Len(objs)}

\* Cut.overlay: the MixedCut it returns
overlay(c, other, offset_other_by, snr) ==
    NewMixedCut(uuid4(UsedIds), c.id, other.id, offset_other_by, snr)

\* Cut.append
append(c, other, snr) == overlay(c, other, c.duration, snr)

\* self._cut_set.cuts[id_], or the exception the lookup raises
lookup_m(m, id_) ==
    IF m.cut_set = Unbound THEN Raise("AttributeError")
    ELSE IF ~DictHas(sets[m.cut_set], id_) THEN Ok(1)
    ELSE Ok(DictGet(sets[m.cut_set], id_))
lookup(m, id_) ==
    IF m.cut_set = Unbound THEN Raise("AttributeError")
    ELSE IF ~DictHas(sets[m.cut_set], id_) THEN Raise("KeyError")
    ELSE Ok(DictGet(sets[m.cut_set], id_))

\* .duration of an entity: a field of a Cut, the property of a MixedCut
\* (lines 144-149); `depth` bounds the recursion through operands
RECURSIVE entity_duration(_, _)
mixed_duration_m(m, depth) ==
    LET left == lookup(m, m.left_cut_id)
        right == lookup(m, m.right_cut_id)
    IN  IF left.kind # "ok" THEN left
        ELSE LET l == entity_duration(objs[left.val], depth - 1)
             IN  IF l.kind # "ok" THEN l
                 ELSE IF right.kind # "ok" THEN right
                 ELSE LET r == entity_duration(objs[right.val], depth - 1)
                      IN  IF r.kind # "ok" THEN r
                          ELSE Ok(Max(l.val, r.val))
mixed_duration(m, depth) ==
    LET left == lookup(m, m.left_cut_id)
        right == lookup(m, m.right_cut_id)
    IN  IF left.kind # "ok" THEN left
        ELSE LET l == entity_duration(objs[left.val], depth - 1)
             IN  IF l.kind # "ok" THEN l
                 ELSE IF right.kind # "ok" THEN right
                 ELSE LET r == entity_duration(objs[right.val], depth - 1)
                      IN  IF r.kind # "ok" THEN r
                          ELSE Ok(Max(l.val, m.offset_right_by + r.val))
entity_duration(e, depth) ==
    IF e.type = "Cut" THEN Ok(e.duration)
    ELSE IF depth = 0 THEN Raise("RecursionError")
    ELSE mixed_duration(e, depth)

\* .supervisions of an entity: a field of a Cut, the property of a MixedCut
\* (lines 139-142)
RECURSIVE entity_supervisions(_, _)
mixed_supervisions(m, depth) ==
    LET left == lookup(m, m.left_cut_id)
        right == lookup(m, m.right_cut_id)
    IN  IF left.kind # "ok" THEN left
        ELSE LET l == entity_supervisions(objs[left.val], depth - 1)
             IN  IF l.kind # "ok" THEN l
                 ELSE IF right.kind # "ok" THEN right
                 ELSE LET r == entity_supervisions(objs[right.val], depth - 1)
                      IN  IF r.kind # "ok" THEN r
                          ELSE Ok(l.val \o r.val)
entity_supervisions(e, depth) ==
    IF e.type = "Cut" THEN Ok(e.supervisions)
    ELSE IF depth = 0 THEN Raise("RecursionError")
    ELSE mixed_supervisions(e, depth)

\* Cut.load_features: what it asks of Features.load
cut_load_features(c) == [start |-> c.start, duration |-> c.duration]

\* MixedCut.load_features; the array it returns is kept as the arguments
\* handed to overlay_fbank
mixed_load_features(m) ==
    LET left == lookup(m, m.left_cut_id)
        right == lookup(m, m.right_cut_id)
    IN  IF left.kind # "ok" THEN left
        ELSE IF right.kind # "ok" THEN right
        ELSE LET cut0 == objs[left.val]
                 cut1 == objs[right.val]
             IN  IF cut0.type # "Cut" THEN Raise("AttributeError")
                 ELSE IF cut1.type # "Cut" THEN Raise("AttributeError")
                 ELSE IF cut0.features.frame_length # cut1.features.frame_length
                      THEN Raise("AssertionError")
                 ELSE IF cut0.features.frame_shift # cut1.features.frame_shift
                      THEN Raise("AssertionError")
                 ELSE Ok([feats |-> <<cut_load_features(cut0), cut_load_features(cut1)>>,
                          snr |-> m.snr,
                          offset_right_by |-> m.offset_right_by,
                          frame_length |-> cut0.features.frame_length,
                          frame_shift |-> cut0.features.frame_shift])

----------------------------------------------------------------------------
(* CutSet *)

\* the addresses CutSet objects can take
CutSetRefs == {1, 2, 3}

Addrs == 1..Len(objs)
CutAddrs == {k \in Addrs : objs[k].type = "Cut"}
MixAddrs == {k \in Addrs : objs[k].type = "MixedCut"}
SetAddrs == 1..Len(sets)

\* {cut.id: cut for cut in cuts}, the cuts given by address in sequence
RECURSIVE DictOfCuts(_)
DictOfCuts(cuts) ==
    IF cuts = <<>> THEN <<>>
    ELSE DictSet(DictOfCuts(SubSeq(cuts, 1, Len(cuts) - 1)),
                 objs[cuts[Len(cuts)]].id, cuts[Len(cuts)])

\* the elements of a set of addresses in rising order
RECURSIVE Sorted(_)
Sorted(S) ==
    IF S = {} THEN <<>>
    ELSE LET top == CHOOSE x \in S : \A y \in S : y <= x
         IN  Append(Sorted(S \ {top}), top)

\* CutSet.mixed_cuts: the values of the dict that are MixedCuts
mixed_cuts(cut_set) ==
    {cut_set[i][2] : i \in {j \in 1..Len(cut_set) : objs[cut_set[j][2]].type = "MixedCut"}}

\* CutSet.__len__
cutset_len(cut_set) == Len(cut_set)

\* CutSet.__add__
cutset_add_m(lhs, rhs) == DictMerge(rhs, lhs)
cutset_add(lhs, rhs) == DictMerge(lhs, rhs)

\* MixedCut.with_cut_set: the heap after m.with_cut_set(cut_set)
with_cut_set(heap, m, cut_set) == [heap EXCEPT ![m].cut_set = cut_set]

\* CutSet.with_source_cuts_from: the heap after every MixedCut in `ms` was bound
RECURSIVE bind_all(_, _, _)
bind_all(heap, ms, source) ==
    IF ms = <<>> THEN heap
    ELSE bind_all(with_cut_set(heap, Head(ms), source), Tail(ms), source)

with_source_cuts_from_m(cs, source) ==
    bind_all(objs, Sorted(mixed_cuts(sets[cs])), cs)
with_source_cuts_from(cs, source) ==
    bind_all(objs, Sorted(mixed_cuts(sets[cs])), source)

----------------------------------------------------------------------------
(* Operations on the heap *)

Ann(start, duration) == [start |-> start, duration |-> duration]
Framing(frame_shift) == CHOOSE f \in Framings : f.frame_shift = frame_shift

\* two Cuts "a" and "b" in one CutSet, and a second CutSet that
\* holds another Cut with the id "a" and none with the id "b"
Heap(d1, d2, f2) ==
    /\ objs = << NewCut("a", 0, 0, d1, Framing(1000 * Tol), <<Ann(0, Tol)>>),
                 NewCut("b", 1, 0, d2, f2, <<Ann(0, 2 * Tol), Ann(Tol, Tol)>>),
                 NewCut("a", 0, Tol, Tol, Framing(1000 * Tol), <<>>) >>
    /\ sets = << DictOfCuts(<<1, 2>>), DictOfCuts(<<3>>) >>
    /\ self = objs[1]
    /\ call = [op |-> "init"]
    /\ ret = NoResult

Overlay(a, b, offset, snr) ==
    /\ Unused(UsedIds) # {}
    /\ objs' = Append(objs, overlay(objs[a], objs[b], offset, snr))
    /\ call' = [op |-> "overlay", left |-> a, right |-> b, offset |-> offset, snr |-> snr]
    /\ ret' = Ok(Len(objs) + 1)
    /\ UNCHANGED <<self, sets>>

AppendCut(a, b, snr) ==
    /\ Unused(UsedIds) # {}
    /\ objs' = Append(objs, append(objs[a], objs[b], snr))
    /\ call' = [op |-> "append", left |-> a, right |-> b, snr |-> snr]
    /\ ret' = Ok(Len(objs) + 1)
    /\ UNCHANGED <<self, sets>>

\* CutSet(cuts={cut.id: cut for cut in cuts})
NewCutSet(S) ==
    /\ Len(sets) < Cardinality(CutSetRefs)
    /\ sets' = Append(sets, DictOfCuts(Sorted(S)))
    /\ call' = [op |-> "CutSet", cuts |-> S]
    /\ ret' = Ok(Len(sets) + 1)
    /\ UNCHANGED <<self, objs>>

Add(lhs, rhs) ==
    /\ Len(sets) < Cardinality(CutSetRefs)
    /\ sets' = Append(sets, cutset_add(sets[lhs], sets[rhs]))
    /\ call' = [op |-> "add", lhs |-> lhs, rhs |-> rhs]
    /\ ret' = Ok(Len(sets) + 1)
    /\ UNCHANGED <<self, objs>>

WithCutSet(m, cs) ==
    /\ objs' = with_cut_set(objs, m, cs)
    /\ call' = [op |-> "with_cut_set", m |-> m, cut_set |-> cs]
    /\ ret' = Ok(m)
    /\ UNCHANGED <<self, sets>>

WithSourceCutsFrom(cs, source) ==
    /\ objs' = with_source_cuts_from(cs, source)
    /\ call' = [op |-> "with_source_cuts_from", cut_set |-> cs, source |-> source]
    /\ ret' = Ok(cs)
    /\ UNCHANGED <<self, sets>>

Duration(m) ==
    /\ call' = [op |-> "duration", m |-> m]
    /\ ret' = mixed_duration(objs[m], Len(objs))
    /\ UNCHANGED <<self, objs, sets>>

Supervisions(m) ==
    /\ call' = [op |-> "supervisions", m |-> m]
    /\ ret' = mixed_supervisions(objs[m], Len(objs))
    /\ UNCHANGED <<self, objs, sets>>

LoadFeatures(m) ==
    /\ call' = [op |-> "load_features", m |-> m]
    /\ ret' = mixed_load_features(objs[m])
    /\ UNCHANGED <<self, objs, sets>>

----------------------------------------------------------------------------
(* Resolving the operands of a MixedCut *)

InitMix == \E f2 \in Framings : Heap(Tol, 2 * Tol, f2)

NextMix ==
    \/ \E a \in CutAddrs, b \in Addrs : Overlay(a, b, 0, 0)
    \/ \E S \in (SUBSET Addrs) \ {{}} : NewCutSet(S)
    \/ \E m \in MixAddrs, cs \in SetAddrs : WithCutSet(m, cs)
    \/ \E m \in MixAddrs : Duration(m)
    \/ \E m \in MixAddrs : Supervisions(m)
    \/ \E m \in MixAddrs : LoadFeatures(m)

SpecMix == InitMix /\ [][NextMix]_vars

----------------------------------------------------------------------------
(* The duration of a MixedCut *)

InitDuration ==
    \E d1 \in Ticks(1..MaxDur), d2 \in Ticks(1..MaxDur) : Heap(d1, d2, Framing(1000 * Tol))

NextDuration ==
    \/ \E a \in CutAddrs, b \in Addrs, offset \in Ticks(0..MaxOffset) : Overlay(a, b, offset, 0)
    \/ \E a \in CutAddrs, b \in CutAddrs, snr \in {0, 3} : AppendCut(a, b, snr)
    \/ MixAddrs # {} /\ NewCutSet(Addrs)
    \/ \E m \in MixAddrs, cs \in SetAddrs : WithCutSet(m, cs)
    \/ \E m \in MixAddrs : Duration(m)

SpecDuration == InitDuration /\ [][NextDuration]_vars

----------------------------------------------------------------------------
(* Binding MixedCuts and adding CutSets *)

InitSets == Heap(Tol, 2 * Tol, Framing(1000 * Tol))

NextSets ==
    \/ \E a \in CutAddrs, b \in Addrs : Overlay(a, b, 0, 0)
    \/ \E S \in (SUBSET Addrs) \ {{}} : NewCutSet(S)
    \/ \E lhs \in SetAddrs, rhs \in SetAddrs : Add(lhs, rhs)
    \/ \E m \in MixAddrs, cs \in SetAddrs : WithCutSet(m, cs)
    \/ \E cs \in SetAddrs, source \in SetAddrs : WithSourceCutsFrom(cs, source)

Spec == InitSets /\ [][NextSets]_vars

----------------------------------------------------------------------------
(* Claims about Cut.truncate, checked under SpecTruncate *)

Truncated == call.op = "truncate"
Returned == ret.kind = "Cut"
Within(x, y, tol) == x - y <= tol /\ y - x <= tol

\* x <= y, up to the roundings of the four sums that line 75 compares
LeqRounded(x, y) == x <= y + 4

\* C1: for 0 <= offset < until <= c.duration, c.truncate(offset, until) returns a
\* Cut whose start is the float sum c.start + offset, whose duration is
\* until - offset and whose end is c.start + until (the latter two within 1e-5 s).
C1_TruncateWindow ==
    (/\ Truncated
     /\ call.until # None
     /\ 0 <= call.offset
     /\ call.offset < call.until[1]
     /\ call.until[1] <= self.duration)
    => /\ Returned
       /\ \E e \in Round : ret.cut.start = fl_add(self.start, call.offset, e)
       /\ Within(ret.cut.duration, call.until[1] - call.offset, Tol)
       /\ \A e \in Round : Within(CutEnd(ret.cut, e), self.start + call.until[1], Tol)

C1_Witness ==
    /\ Truncated
    /\ call.until # None
    /\ self.start > 0
    /\ 0 < call.offset
    /\ call.offset < call.until[1]
    /\ call.until[1] < self.duration
    /\ Returned
    /\ ret.cut.start # self.start + call.offset

\* C2: for 0 <= offset < c.duration, c.truncate(offset) without until returns a
\* Cut whose duration is the float difference c.duration - offset, so that its
\* end is c.end.
C2_TruncateToEnd ==
    (/\ Truncated
     /\ call.until = None
     /\ 0 <= call.offset
     /\ call.offset < self.duration)
    => /\ Returned
       /\ \E e \in Round : ret.cut.duration = fl_sub(self.duration, call.offset, e)
       /\ \E e1 \in Round, e2 \in Round : CutEnd(ret.cut, e1) = CutEnd(self, e2)

DocCall ==
    /\ Truncated
    /\ self.start = DocStart
    /\ self.duration = DocDuration
    /\ self.supervisions = <<>>
    /\ call.offset = DocOffset
    /\ call.until = <<DocUntil>>

\* C3 as stated: the Cut with start=3.0, duration=8.0 and no supervisions,
\* truncated with offset=5.0, until=7.0, has start=5.0, duration 2.0, end 7.0.
C3_DocExampleAsStated ==
    DocCall
    => /\ Returned
       /\ ret.cut.start = 5 * Second
       /\ Within(ret.cut.duration, 2 * Second, Tol)
       /\ \A e \in Round : Within(CutEnd(ret.cut, e), 7 * Second, Tol)

\* C3 as amended: that call returns a Cut with start=8.0 (3.0 + 5.0),
\* duration 2.0 and end 10.0.
C3_DocExample ==
    DocCall
    => /\ Returned
       /\ ret.cut.start = 8 * Second
       /\ Within(ret.cut.duration, 2 * Second, Tol)
       /\ \A e \in Round : Within(CutEnd(ret.cut, e), 10 * Second, Tol)

C3_Witness == DocCall /\ Returned

\* every call whose duration is <= 0, or whose end is more than 1e-5 s after the
\* original end, raises
TruncateRejects ==
    /\ (/\ call.until # None
        /\ \/ call.until[1] - call.offset <= 0
           \/ ~LeqRounded(self.start + call.until[1],
                          self.start + self.duration + Tol))
       => ret.kind = "AssertionError"
    /\ (call.until = None /\ self.duration - call.offset <= 0)
       => ret.kind = "AssertionError"

\* the end of the returned Cut is, as floats, at most the original end + 1e-5
EndWithinTol ==
    \E e \in Round, old_end \in Round, bound \in Round :
        CutEnd(ret.cut, e) <= fl_add(CutEnd(self, old_end), Tol, bound)

\* C4 as stated: a returned Cut has duration > 0, duration not larger than the
\* original's, start >= the original start and end <= the original end + 1e-5 s;
\* calls outside these limits raise.
C4_ContainedAsStated ==
    (Truncated /\ call.offset >= 0)
    => /\ Returned
          => /\ ret.cut.duration > 0
             /\ LeqRounded(ret.cut.duration, self.duration)
             /\ ret.cut.start >= self.start
             /\ EndWithinTol
       /\ TruncateRejects

\* C4 as amended: the duration of a returned Cut is not larger than the
\* original's plus 1e-5 s; the rest as stated.
C4_Contained ==
    (Truncated /\ call.offset >= 0)
    => /\ Returned
          => /\ ret.cut.duration > 0
             /\ LeqRounded(ret.cut.duration, self.duration + Tol)
             /\ ret.cut.start >= self.start
             /\ EndWithinTol
       /\ TruncateRejects

\* a call returns a Cut that is longer than the original and ends one tick after
\* it, and the call with `until` one tick later is refused whatever the rounding
C4_Witness ==
    /\ Truncated
    /\ Returned
    /\ call.until # None
    /\ ret.cut.duration > self.duration
    /\ call.until[1] = self.duration + Tol
    /\ <<call.until[1] + Tol>> \in Untils
    /\ \A fl \in Roundings :
           truncate(self, call.offset, <<call.until[1] + Tol>>, TRUE, fl).kind
               = "AssertionError"

\* the annotations of `c` that the window keeps under the given rule, in order
KeptIn(c, window, keep) ==
    LET Keeps(segment) ==
            IF keep THEN overlaps(window, segment) ELSE overspans(window, segment)
    IN  SelectSeq(c.supervisions, Keeps)

\* the new window: from the start of the returned Cut to its end, the float sum
\* of its start and duration, rounded with error e
NewWindow(e) == TimeSpan(ret.cut.start, CutEnd(ret.cut, e))

\* C5: the supervisions of a returned Cut are, in the original order and
\* unchanged, the original supervisions that overlap the new window (flag true)
\* or that the new window contains (flag false); for that window the list kept
\* with false is a sub-list of the list kept with true.
C5_Supervisions ==
    (Truncated /\ Returned)
    => \E e \in Round :
           /\ ret.cut.supervisions =
                  KeptIn(self, NewWindow(e), call.keep_excessive_supervisions)
           /\ LET Contained(segment) == overspans(NewWindow(e), segment)
              IN  KeptIn(self, NewWindow(e), FALSE)
                      = SelectSeq(KeptIn(self, NewWindow(e), TRUE), Contained)

\* with the flag true a Cut keeps, unshifted, an annotation that sticks out of
\* the new window and drops one outside it; with the flag false it keeps neither
C5_Witness ==
    /\ Truncated
    /\ Returned
    /\ call.keep_excessive_supervisions
    /\ Len(self.supervisions) = 2
    /\ Len(ret.cut.supervisions) = 1
    /\ \A e \in Round :
           /\ SegEnd(ret.cut.supervisions[1]) > CutEnd(ret.cut, e)
           /\ KeptIn(self, NewWindow(e), FALSE) = <<>>

----------------------------------------------------------------------------
(* Claims about MixedCut, checked under SpecMix and SpecDuration *)

Queried == call.op \in {"duration", "supervisions", "load_features"}
Bound(m) == m.cut_set # Unbound
\* the dict the MixedCut is bound to
BoundCuts(m) == sets[m.cut_set]
HasBoth(m) ==
    /\ DictHas(BoundCuts(m), m.left_cut_id)
    /\ DictHas(BoundCuts(m), m.right_cut_id)
LeftOf(m) == objs[DictGet(BoundCuts(m), m.left_cut_id)]
RightOf(m) == objs[DictGet(BoundCuts(m), m.right_cut_id)]
SameFraming(c, d) == c.features = d.features

\* C6: duration, supervisions and load_features of a MixedCut that was never
\* bound raise; bound to a CutSet without its left or its right id they raise;
\* bound to a CutSet that holds both operands, Cuts of the same framing, they
\* return.
C6_Resolution ==
    Queried =>
        LET m == objs[call.m]
        IN  /\ ~Bound(m) => ret.kind = "AttributeError"
            /\ (Bound(m) /\ ~HasBoth(m)) => ret.kind \in {"KeyError", "AttributeError"}
            /\ (/\ Bound(m)
                /\ HasBoth(m)
                /\ LeftOf(m).type = "Cut"
                /\ RightOf(m).type = "Cut"
                /\ SameFraming(LeftOf(m), RightOf(m)))
               => ret.kind = "ok"

\* load_features returns for a bound MixedCut, while another MixedCut of the
\* heap is bound to a CutSet without its right operand
C6_Witness ==
    /\ call.op = "load_features"
    /\ ret.kind = "ok"
    /\ \E k \in MixAddrs :
          /\ k # call.m
          /\ Bound(objs[k])
          /\ DictHas(BoundCuts(objs[k]), objs[k].left_cut_id)
          /\ ~DictHas(BoundCuts(objs[k]), objs[k].right_cut_id)

\* a Cut, or a bound MixedCut of two Cuts
Loadable(e) ==
    \/ e.type = "Cut"
    \/ /\ e.type = "MixedCut"
       /\ Bound(e)
       /\ HasBoth(e)
       /\ LeftOf(e).type = "Cut"
       /\ RightOf(e).type = "Cut"
       /\ SameFraming(LeftOf(e), RightOf(e))

\* C7: load_features of a bound MixedCut returns when one of its ids resolves to
\* a MixedCut that is itself bound to Cuts of the same framing.
C7_MixOfMix ==
    (/\ call.op = "load_features"
     /\ Bound(objs[call.m])
     /\ HasBoth(objs[call.m])
     /\ Loadable(LeftOf(objs[call.m]))
     /\ Loadable(RightOf(objs[call.m]))
     /\ \/ LeftOf(objs[call.m]).type = "MixedCut"
        \/ RightOf(objs[call.m]).type = "MixedCut"
     /\ \A k \in CutAddrs : SameFraming(objs[k], objs[1]))
    => ret.kind = "ok"

\* .duration of an operand
OperandDuration(e) ==
    IF e.type = "Cut" THEN Ok(e.duration) ELSE mixed_duration(e, Len(objs))

\* C8: the duration of a MixedCut bound to a CutSet that holds both operands is
\* max(left.duration, offset_right_by + right.duration); the MixedCut of
\* a.append(b, snr) has the duration a.duration + b.duration and the one of
\* a.overlay(b, 0, 0) has max(a.duration, b.duration).
C8_Duration ==
    /\ (/\ call.op = "duration"
        /\ Bound(objs[call.m])
        /\ HasBoth(objs[call.m])
        /\ OperandDuration(LeftOf(objs[call.m])).kind = "ok"
        /\ OperandDuration(RightOf(objs[call.m])).kind = "ok")
       => ret = Ok(Max(OperandDuration(LeftOf(objs[call.m])).val,
                       objs[call.m].offset_right_by
                           + OperandDuration(RightOf(objs[call.m])).val))
    /\ call.op \in {"append", "overlay"}
       => \A cs \in SetAddrs :
             LET m == [objs[ret.val] EXCEPT !.cut_set = cs]
                 a == objs[call.left]
                 b == objs[call.right]
             IN  (/\ HasBoth(m)
                  /\ LeftOf(m) = a
                  /\ RightOf(m) = b
                  /\ b.type = "Cut")
                 => /\ call.op = "append"
                       => mixed_duration(m, Len(objs)) = Ok(a.duration + b.duration)
                    /\ (call.op = "overlay" /\ call.offset = 0 /\ call.snr = 0)
                       => mixed_duration(m, Len(objs)) = Ok(Max(a.duration, b.duration))

\* the duration of an appended, bound MixedCut was asked (only append passes a
\* snr other than 0 under SpecDuration): the sum of two different durations
C8_Witness ==
    /\ call.op = "duration"
    /\ ret.kind = "ok"
    /\ objs[call.m].snr # 0
    /\ LeftOf(objs[call.m]).duration # RightOf(objs[call.m]).duration
    /\ objs[call.m].offset_right_by = LeftOf(objs[call.m]).duration
    /\ ret.val = LeftOf(objs[call.m]).duration + RightOf(objs[call.m]).duration

----------------------------------------------------------------------------
(* Claims about binding and CutSet.__add__, checked under Spec *)

\* the entities a dict holds
Held(cut_set) == {cut_set[i][2] : i \in 1..Len(cut_set)}

\* what a lookup of id_ in the dict gives
Resolved(cut_set, id_) ==
    IF DictHas(cut_set, id_) THEN Ok(DictGet(cut_set, id_)) ELSE Raise("KeyError")

\* C9: with_cut_set makes the MixedCut resolve against the given CutSet, whatever
\* it was bound to before; with_source_cuts_from(source) binds the MixedCuts the
\* CutSet holds to source and no other entity; no bind changes another field of
\* a MixedCut or a CutSet, and no other operation changes a binding.
C9_Binding ==
    [][/\ call'.op = "with_cut_set"
          => /\ objs' = [objs EXCEPT ![call'.m].cut_set = call'.cut_set]
             /\ \A m \in MixAddrs, id_ \in UsedIds :
                   call'.m = m
                   => lookup(objs[m], id_)' = Resolved(sets[call'.cut_set], id_)
             /\ sets' = sets
       /\ call'.op = "with_source_cuts_from"
          => /\ Len(objs') = Len(objs)
             /\ \A k \in Addrs :
                   objs'[k] =
                       IF k \in MixAddrs /\ k \in Held(sets[call'.cut_set])
                       THEN [objs[k] EXCEPT !.cut_set = call'.source]
                       ELSE objs[k]
             /\ sets' = sets
       /\ call'.op \notin {"with_cut_set", "with_source_cuts_from"}
          => \A k \in Addrs : objs'[k] = objs[k]
      ]_vars

\* with_source_cuts_from re-bound the MixedCut a CutSet holds to another CutSet
\* and left a MixedCut outside it bound where it was
C9_Witness ==
    /\ call.op = "with_source_cuts_from"
    /\ call.cut_set # call.source
    /\ \E k \in MixAddrs, j \in MixAddrs :
          /\ k \in Held(sets[call.cut_set])
          /\ objs[k].cut_set = call.source
          /\ j \notin Held(sets[call.cut_set])
          /\ Bound(objs[j])
          /\ objs[j].cut_set # call.source

\* C10: A + B is a new CutSet whose ids are those of A and of B, each id of B
\* mapped to B's entity and every other id to A's; its size is the number of
\* distinct ids; A and B are unchanged.
C10_Add ==
    [][call'.op = "add"
       => LET A == sets[call'.lhs]
              B == sets[call'.rhs]
              R == sets'[ret'.val]
          IN  /\ ret'.val = Len(sets) + 1
              /\ Len(sets') = Len(sets) + 1
              /\ \A i \in SetAddrs : sets'[i] = sets[i]
              /\ objs' = objs
              /\ DictKeys(R) = DictKeys(A) \cup DictKeys(B)
              /\ \A id_ \in DictKeys(R) :
                    DictGet(R, id_) = IF DictHas(B, id_) THEN DictGet(B, id_)
                                                         ELSE DictGet(A, id_)
              /\ cutset_len(R) = Cardinality(DictKeys(A) \cup DictKeys(B))
      ]_vars

\* two CutSets with different Cuts under one id were added, and the sum also
\* holds an id of the left one alone
C10_Witness ==
    /\ call.op = "add"
    /\ \E id_ \in DictKeys(sets[call.lhs]) \cap DictKeys(sets[call.rhs]) :
          /\ DictGet(sets[call.lhs], id_) # DictGet(sets[call.rhs], id_)
          /\ DictGet(sets[ret.val], id_) = DictGet(sets[call.rhs], id_)
    /\ DictKeys(sets[call.lhs]) \ DictKeys(sets[call.rhs]) # {}
    /\ cutset_len(sets[ret.val]) = 2

====
